---- MODULE Spec2Model ----
(***************************************************************************)
(* Model of the parquet bridge of package util (src/util/util.go):         *)
(* GenerateParquet (schema inference by mapToStructWithTags, row           *)
(* materialization, columnar write) and ReadParquet (open, deferred        *)
(* releases, decode loop).  The parquet library and the operating system   *)
(* are the environment: each of their calls either succeeds or fails, and  *)
(* a decode may also raise a runtime fault (panic).                        *)
(***************************************************************************)
EXTENDS Integers, Sequences, FiniteSets, TLC

(* ---------------------------------------------------------------------- *)
(* Bounds                                                                 *)
(* ---------------------------------------------------------------------- *)
\* longest batch handed to GenerateParquet
MaxRecords == 2
\* number of failures the environment may inject in one run
MaxFaults == 1

(* ---------------------------------------------------------------------- *)
(* Values: map[string]interface{}                                         *)
(* ---------------------------------------------------------------------- *)
\* record keys, as sequences of characters
Keys == { <<"a", "b">>, <<"a", "B">>, <<"c">> }

IntV(s) == [t |-> "int", v |-> s]
StrV(s) == [t |-> "string", v |-> s]
\* the nil interface value: reflect.TypeOf(nil) is the nil Type
NilV == [t |-> "nil", v |-> "nil"]

\* the values a record may hold
Vals == { IntV("1"), StrV("x"), NilV }

\* reflect.TypeOf(value)
TypeOf(val) == val.t

\* the zero value reflect.New(structType).Elem() gives a field of type t
Zero(t) == IF t = "int" THEN IntV("0") ELSE IF t = "string" THEN StrV("") ELSE NilV

\* the key sets of the records of a batch: one key, two keys that differ only
\* in case, and two keys that differ in their letters
KeySets ==
    { { <<"a", "b">> }, { <<"a", "B">> }, { <<"c">> },
      { <<"a", "b">>, <<"a", "B">> }, { <<"a", "b">>, <<"c">> } }

\* the map[string]interface{} values a batch may hold
Records == UNION { [S -> Vals] : S \in KeySets }

\* all batches of at most MaxRecords records
Batches == UNION { [1..n -> Records] : n \in 0..MaxRecords }

(* ---------------------------------------------------------------------- *)
(* cases.Title(language.English).String(key), for one-word keys of        *)
(* letters: the first letter upper-cased, every other letter lower-cased  *)
(* ---------------------------------------------------------------------- *)
Upper(c) == CASE c = "a" -> "A" [] c = "b" -> "B" [] c = "c" -> "C" [] OTHER -> c
Lower(c) == CASE c = "A" -> "a" [] c = "B" -> "b" [] c = "C" -> "c" [] OTHER -> c

Title(key) == [i \in 1..Len(key) |-> IF i = 1 THEN Upper(key[i]) ELSE Lower(key[i])]

(* ---------------------------------------------------------------------- *)
(* mapToStructWithTags                                                    *)
(* ---------------------------------------------------------------------- *)
\* the orders in which "for key, value := range m" may visit the keys of m
RangeOrders(m) ==
    { o \in [1..Cardinality(DOMAIN m) -> DOMAIN m] :
        \A i, j \in 1..Cardinality(DOMAIN m) : i # j => o[i] # o[j] }

\* the fields slice built by visiting sampleMap in order o
StructFields(sampleMap, o) ==
    [i \in 1..Len(o) |->
        [Name |-> Title(o[i]), Type |-> TypeOf(sampleMap[o[i]]), Tag |-> o[i]]]

\* reflect.StructOf panics on a field without a type and on a duplicate name
StructOfPanics(fs) ==
    \/ \E i \in 1..Len(fs) : fs[i].Type = "nil"
    \/ \E i, j \in 1..Len(fs) : i # j /\ fs[i].Name = fs[j].Name

FieldNames(fs) == { fs[i].Name : i \in 1..Len(fs) }

\* structInstance.FieldByName(name).IsValid()
IsValidField(fs, name) == name \in FieldNames(fs)

\* the type of field name of the struct type made from fs
FieldType(fs, name) == fs[CHOOSE i \in 1..Len(fs) : fs[i].Name = name].Type

\* the struct instances one record may materialize to: a field keeps its zero
\* value unless some key of the record has its name and its type; when several
\* keys do, the one visited last wins, and any of them may be visited last
Candidates(fs, mapData, name) ==
    { k \in DOMAIN mapData :
        Title(k) = name /\ TypeOf(mapData[k]) = FieldType(fs, name) }

StructInstances(fs, mapData) ==
    { inst \in [FieldNames(fs) -> Vals \cup { Zero(fs[i].Type) : i \in 1..Len(fs) }] :
        \A name \in FieldNames(fs) :
            IF Candidates(fs, mapData, name) = {}
            THEN inst[name] = Zero(FieldType(fs, name))
            ELSE \E k \in Candidates(fs, mapData, name) : inst[name] = mapData[k] }

\* the keys of a record that fmt.Printf("Invalid field: ...") reports
InvalidKeys(fs, mapData) == { k \in DOMAIN mapData : ~IsValidField(fs, Title(k)) }

\* reflect.ValueOf(nil).Type() panics: a nil value under a key that names a field
PopulatePanics(fs, mapData) ==
    \E k \in DOMAIN mapData : IsValidField(fs, Title(k)) /\ mapData[k] = NilV

\* reflect.New(structType).Elem(): every field at its zero value
ZeroStruct(fs) == [name \in FieldNames(fs) |-> Zero(FieldType(fs, name))]

\* the row the writer stores for a struct instance: one column per field, named
\* by the field's parquet tag (name=<key>)
RowOf(fs, inst) ==
    [col \in { fs[i].Tag : i \in 1..Len(fs) } |->
        inst[fs[CHOOSE i \in 1..Len(fs) : fs[i].Tag = col].Name]]

\* pf.Read into a new zero element of the row type: each field takes the column
\* its tag names, and keeps its zero value when the file has no such column
Decode(fs, row) ==
    [name \in FieldNames(fs) |->
        LET f == fs[CHOOSE i \in 1..Len(fs) : fs[i].Name = name]
        IN  IF f.Tag \in DOMAIN row THEN row[f.Tag] ELSE Zero(f.Type)]

(* ---------------------------------------------------------------------- *)
(* State                                                                  *)
(* ---------------------------------------------------------------------- *)
VARIABLES
    data,        \* GenerateParquet's data argument
    disk,        \* the file named fileName
    pc,          \* position of the caller / of the running call
    nFaults,     \* failures injected so far
    fields,      \* mapToStructWithTags: the fields slice
    structSlice, \* GenerateParquet: structSlice
    idx,         \* GenerateParquet: loop index i (1-based)
    log,         \* number of "Invalid field: <key>" lines printed, per key
    fOpen,       \* GenerateParquet: f is open
    wOpen,       \* GenerateParquet: writer is open
    events,      \* file-system and writer calls made by GenerateParquet
    failed,      \* the I/O steps of GenerateParquet that failed
    gpResult,    \* what GenerateParquet returned
    targetOK,    \* ReadParquet: slicePtr is a pointer to a slice
    rfOpens,     \* ReadParquet: times rf was opened
    rfCloses,    \* ReadParquet: times rf.Close() ran
    pfNonNil,    \* ReadParquet: pf != nil
    pfCloses,    \* ReadParquet: times pf.Close() ran
    defers,      \* ReadParquet: deferred calls, last registered last
    panicking,   \* ReadParquet: a panic is unwinding the call
    readPos,     \* ReadParquet: next row of the file pf.Read decodes
    out,         \* ReadParquet: the slice behind slicePtr
    rpExit,      \* ReadParquet: the path on which the call left its body
    rpResult,    \* what ReadParquet returned
    sv,          \* StructToMap's argument s, a structured value
    flPc,        \* position of the flatten, materialize, flatten pipeline
    flat1,       \* StructToMap(s)
    flFields,    \* mapToStructWithTags(flat1): the fields slice
    flRow,       \* the struct instance populated from flat1
    flat2        \* StructToMap of that struct instance

gpVars == <<fields, structSlice, idx, log, fOpen, wOpen, events, failed, gpResult>>
rpVars == <<targetOK, rfOpens, rfCloses, pfNonNil, pfCloses, defers, panicking,
            readPos, out, rpExit, rpResult>>
flVars == <<sv, flPc, flat1, flFields, flRow, flat2>>
vars == <<data, disk, pc, nFaults, gpVars, rpVars, flVars>>

\* the file before the run: missing, or a complete file left by an earlier run
NoFile == [exists |-> FALSE, complete |-> FALSE, rows |-> <<>>]
OldRow == [col \in { <<"c">> } |-> IntV("1")]
OldFile == [exists |-> TRUE, complete |-> TRUE, rows |-> <<OldRow>>]

NoLog == [k \in Keys |-> 0]

Init ==
    /\ data \in Batches
    /\ disk \in { NoFile, OldFile }
    /\ pc = "gp_start"
    /\ nFaults = 0
    /\ fields = <<>>
    /\ structSlice = <<>>
    /\ idx = 0
    /\ log = NoLog
    /\ fOpen = FALSE
    /\ wOpen = FALSE
    /\ events = <<>>
    /\ failed = {}
    /\ gpResult = "none"
    /\ targetOK = TRUE
    /\ rfOpens = 0
    /\ rfCloses = 0
    /\ pfNonNil = FALSE
    /\ pfCloses = 0
    /\ defers = <<>>
    /\ panicking = FALSE
    /\ readPos = 0
    /\ out = <<>>
    /\ rpExit = "none"
    /\ rpResult = "none"
    /\ sv = <<>>
    /\ flPc = "fl_idle"
    /\ flat1 = <<>>
    /\ flFields = <<>>
    /\ flRow = <<>>
    /\ flat2 = <<>>

\* the environment may still make a call fail
CanFail == nFaults < MaxFaults

Event(op, i) == [op |-> op, i |-> i]

(* ---------------------------------------------------------------------- *)
(* GenerateParquet                                                        *)
(* ---------------------------------------------------------------------- *)
\* GpStart with the file created before the empty-batch check
GpStartCreateFirst ==
    /\ pc = "gp_start"
    /\ IF Len(data) = 0
       THEN /\ disk' = [exists |-> TRUE, complete |-> FALSE, rows |-> <<>>]
            /\ events' = Append(events, Event("create", 0))
            /\ gpResult' = "ErrEmptyData"
            /\ pc' = "gp_done"
            /\ UNCHANGED <<fields, structSlice, idx>>
       ELSE /\ \E o \in RangeOrders(data[1]) :
                 /\ fields' = StructFields(data[1], o)
                 /\ IF StructOfPanics(fields')
                    THEN /\ gpResult' = "panic"
                         /\ pc' = "gp_done"
                         /\ UNCHANGED <<structSlice, idx>>
                    ELSE /\ structSlice' = [i \in 1..Len(data) |-> ZeroStruct(fields')]
                         /\ idx' = 1
                         /\ pc' = "gp_populate"
                         /\ UNCHANGED gpResult
            /\ UNCHANGED <<disk, events>>
    /\ UNCHANGED <<flVars, data, nFaults, log, fOpen, wOpen, failed, rpVars>>

\* the empty-batch check, then mapToStructWithTags(data[0]) and MakeSlice
GpStart ==
    /\ pc = "gp_start"
    /\ IF Len(data) = 0
       THEN /\ gpResult' = "ErrEmptyData"
            /\ pc' = "gp_done"
            /\ UNCHANGED <<fields, structSlice, idx>>
       ELSE \E o \in RangeOrders(data[1]) :
            /\ fields' = StructFields(data[1], o)
            /\ IF StructOfPanics(fields')
               THEN /\ gpResult' = "panic"
                    /\ pc' = "gp_done"
                    /\ UNCHANGED <<structSlice, idx>>
               ELSE /\ structSlice' = [i \in 1..Len(data) |-> ZeroStruct(fields')]
                    /\ idx' = 1
                    /\ pc' = "gp_populate"
                    /\ UNCHANGED gpResult
    /\ UNCHANGED <<flVars, data, disk, nFaults, log, fOpen, wOpen, events, failed, rpVars>>

\* one pass of "for i, mapData := range data"
GpPopulate ==
    /\ pc = "gp_populate"
    /\ IF PopulatePanics(fields, data[idx])
       THEN \* the lines printed before the nil value is visited
            /\ \E printed \in SUBSET InvalidKeys(fields, data[idx]) :
                 log' = [k \in Keys |-> IF k \in printed THEN log[k] + 1 ELSE log[k]]
            /\ gpResult' = "panic"
            /\ pc' = "gp_done"
            /\ UNCHANGED <<structSlice, idx>>
       ELSE /\ \E inst \in StructInstances(fields, data[idx]) :
                 structSlice' = [structSlice EXCEPT ![idx] = inst]
            /\ log' = [k \in Keys |->
                        IF k \in InvalidKeys(fields, data[idx]) THEN log[k] + 1 ELSE log[k]]
            /\ idx' = idx + 1
            /\ pc' = IF idx = Len(data) THEN "gp_create" ELSE "gp_populate"
            /\ UNCHANGED gpResult
    /\ UNCHANGED <<flVars, data, disk, nFaults, fields, fOpen, wOpen, events, failed, rpVars>>

\* os.Create(fileName) and parquet.NewWriter(f)
GpCreate ==
    /\ pc = "gp_create"
    /\ events' = Append(events, Event("create", 0))
    /\ \/ /\ disk' = [exists |-> TRUE, complete |-> FALSE, rows |-> <<>>]
          /\ fOpen' = TRUE
          /\ wOpen' = TRUE
          /\ idx' = 1
          /\ pc' = "gp_write"
          /\ UNCHANGED <<nFaults, failed, gpResult>>
       \/ /\ CanFail
          /\ nFaults' = nFaults + 1
          /\ failed' = failed \cup {"create"}
          /\ gpResult' = "ErrCreate"
          /\ pc' = "gp_done"
          /\ UNCHANGED <<disk, fOpen, wOpen, idx>>
    /\ UNCHANGED <<flVars, data, fields, structSlice, log, rpVars>>

\* GpWrite with the write loop running from the last row to the first
GpWriteReversed ==
    /\ pc = "gp_write"
    /\ events' = Append(events, Event("write", Len(structSlice) - idx + 1))
    /\ \/ /\ disk' = [disk EXCEPT !.rows =
                         Append(@, RowOf(fields, structSlice[Len(structSlice) - idx + 1]))]
          /\ idx' = idx + 1
          /\ pc' = IF idx = Len(structSlice) THEN "gp_wclose" ELSE "gp_write"
          /\ UNCHANGED <<nFaults, failed, gpResult>>
       \/ /\ CanFail
          /\ nFaults' = nFaults + 1
          /\ failed' = failed \cup {"write"}
          /\ gpResult' = "ErrWrite"
          /\ pc' = "gp_done"
          /\ UNCHANGED <<disk, idx>>
    /\ UNCHANGED <<flVars, data, fields, structSlice, log, fOpen, wOpen, rpVars>>

\* one pass of the write loop: writer.Write(structSlice.Index(i).Interface())
GpWrite ==
    /\ pc = "gp_write"
    /\ events' = Append(events, Event("write", idx))
    /\ \/ /\ disk' = [disk EXCEPT !.rows = Append(@, RowOf(fields, structSlice[idx]))]
          /\ idx' = idx + 1
          /\ pc' = IF idx = Len(structSlice) THEN "gp_wclose" ELSE "gp_write"
          /\ UNCHANGED <<nFaults, failed, gpResult>>
       \/ /\ CanFail
          /\ nFaults' = nFaults + 1
          /\ failed' = failed \cup {"write"}
          /\ gpResult' = "ErrWrite"
          /\ pc' = "gp_done"
          /\ UNCHANGED <<disk, idx>>
    /\ UNCHANGED <<flVars, data, fields, structSlice, log, fOpen, wOpen, rpVars>>

\* _ = writer.Close(): a successful close writes the footer
GpCloseWriter ==
    /\ pc = "gp_wclose"
    /\ events' = Append(events, Event("wclose", 0))
    /\ wOpen' = FALSE
    /\ \/ /\ disk' = [disk EXCEPT !.complete = TRUE]
          /\ UNCHANGED <<nFaults, failed>>
       \/ /\ CanFail
          /\ nFaults' = nFaults + 1
          /\ failed' = failed \cup {"wclose"}
          /\ UNCHANGED disk
    /\ pc' = "gp_fclose"
    /\ UNCHANGED <<flVars, data, fields, structSlice, idx, log, fOpen, gpResult, rpVars>>

\* _ = f.Close(); return nil
GpCloseFile ==
    /\ pc = "gp_fclose"
    /\ events' = Append(events, Event("fclose", 0))
    /\ fOpen' = FALSE
    /\ \/ UNCHANGED <<nFaults, failed>>
       \/ /\ CanFail
          /\ nFaults' = nFaults + 1
          /\ failed' = failed \cup {"fclose"}
    /\ gpResult' = "nil"
    /\ pc' = "gp_done"
    /\ UNCHANGED <<flVars, data, disk, fields, structSlice, idx, log, wOpen, rpVars>>

(* ---------------------------------------------------------------------- *)
(* ReadParquet                                                            *)
(* ---------------------------------------------------------------------- *)
\* the call, os.Open(fileName), and the first defer (the recover closure)
RpOpen ==
    /\ pc = "gp_done"
    /\ \E ok \in BOOLEAN : targetOK' = ok
    /\ \/ /\ disk.exists
          /\ rfOpens' = rfOpens + 1
          /\ defers' = <<"recover">>
          /\ pc' = "rp_newreader"
          /\ UNCHANGED <<nFaults, rpExit, rpResult>>
       \/ /\ ~disk.exists \/ CanFail
          /\ nFaults' = IF disk.exists THEN nFaults + 1 ELSE nFaults
          /\ rpExit' = "open_error"
          /\ rpResult' = "ErrOpen"
          /\ pc' = "rp_done"
          /\ UNCHANGED <<rfOpens, defers>>
    /\ UNCHANGED <<flVars, data, disk, gpVars, rfCloses, pfNonNil, pfCloses, panicking,
                   readPos, out>>

\* pf = parquet.NewReader(rf), which panics on a file it cannot open as parquet;
\* then defer rf.Close() and defer pf.Close()
RpNewReader ==
    /\ pc = "rp_newreader"
    /\ \/ /\ disk.complete
          /\ pfNonNil' = TRUE
          /\ defers' = defers \o <<"rfClose", "pfClose">>
          /\ readPos' = 1
          /\ pc' = "rp_validate"
          /\ UNCHANGED <<nFaults, panicking, rpExit>>
       \/ /\ ~disk.complete \/ CanFail
          /\ nFaults' = IF disk.complete THEN nFaults + 1 ELSE nFaults
          /\ panicking' = TRUE
          /\ rpExit' = "newreader_panic"
          /\ pc' = "rp_defer"
          /\ UNCHANGED <<pfNonNil, defers, readPos>>
    /\ UNCHANGED <<flVars, data, disk, gpVars, targetOK, rfOpens, rfCloses, pfCloses, out,
                   rpResult>>

\* the check that slicePtr is a pointer to a slice
RpValidate ==
    /\ pc = "rp_validate"
    /\ IF targetOK
       THEN /\ pc' = "rp_read"
            /\ UNCHANGED <<rpExit, rpResult>>
       ELSE /\ rpExit' = "shape_error"
            /\ rpResult' = "ErrShape"
            /\ pc' = "rp_defer"
    /\ UNCHANGED <<flVars, data, disk, nFaults, gpVars, targetOK, rfOpens, rfCloses, pfNonNil,
                   pfCloses, defers, panicking, readPos, out>>

\* one pass of the decode loop: pf.Read(elem), then EOF, error or append
RpRead ==
    /\ pc = "rp_read"
    /\ \/ /\ readPos <= Len(disk.rows)
          /\ out' = Append(out, Decode(fields, disk.rows[readPos]))
          /\ readPos' = readPos + 1
          /\ UNCHANGED <<pc, nFaults, panicking, rpExit, rpResult>>
       \/ /\ readPos > Len(disk.rows)
          /\ rpExit' = "eof"
          /\ rpResult' = "nil"
          /\ pc' = "rp_defer"
          /\ UNCHANGED <<nFaults, panicking, readPos, out>>
       \/ /\ CanFail
          /\ nFaults' = nFaults + 1
          /\ rpExit' = "decode_error"
          /\ rpResult' = "ErrDecode"
          /\ pc' = "rp_defer"
          /\ UNCHANGED <<panicking, readPos, out>>
       \/ /\ CanFail
          /\ nFaults' = nFaults + 1
          /\ panicking' = TRUE
          /\ rpExit' = "decode_panic"
          /\ pc' = "rp_defer"
          /\ UNCHANGED <<readPos, out, rpResult>>
    /\ UNCHANGED <<flVars, data, disk, gpVars, targetOK, rfOpens, rfCloses, pfNonNil, pfCloses,
                   defers>>

\* the deferred calls run last registered first: pf.Close(), rf.Close(), and the
\* closure that recovers a panic and closes pf when it is not nil
RpDefer ==
    /\ pc = "rp_defer"
    /\ defers # <<>>
    /\ LET d == defers[Len(defers)]
           recovers == d = "recover" /\ panicking
       IN  /\ pfCloses' = IF d = "pfClose" \/ (recovers /\ pfNonNil)
                          THEN pfCloses + 1 ELSE pfCloses
           /\ rfCloses' = IF d = "rfClose" THEN rfCloses + 1 ELSE rfCloses
           /\ panicking' = IF recovers THEN FALSE ELSE panicking
           \* a recovered call returns the zero value of its unnamed error result
           /\ rpResult' = IF recovers THEN "nil" ELSE rpResult
    /\ defers' = SubSeq(defers, 1, Len(defers) - 1)
    /\ UNCHANGED <<flVars, data, disk, pc, nFaults, gpVars, targetOK, rfOpens, pfNonNil,
                   readPos, out, rpExit>>

\* the call ends once every deferred call has run
RpReturn ==
    /\ pc = "rp_defer"
    /\ defers = <<>>
    /\ pc' = "rp_done"
    /\ rpResult' = IF panicking THEN "panic" ELSE rpResult
    /\ UNCHANGED <<flVars, data, disk, nFaults, gpVars, targetOK, rfOpens, rfCloses, pfNonNil,
                   pfCloses, defers, panicking, readPos, out, rpExit>>

Next ==
    \/ GpStart
    \/ GpPopulate
    \/ GpCreate
    \/ GpWrite
    \/ GpCloseWriter
    \/ GpCloseFile
    \/ RpOpen
    \/ RpNewReader
    \/ RpValidate
    \/ RpRead
    \/ RpDefer
    \/ RpReturn

Spec == Init /\ [][Next]_vars

(* ---------------------------------------------------------------------- *)
(* StructToMap, and the pipeline flatten, infer, materialize, flatten     *)
(* ---------------------------------------------------------------------- *)
\* deepest nesting of struct members in a structured value
MaxDepth == 1

\* a struct-kinded member holding the struct value m
StructV(m) == [t |-> "struct", v |-> "struct", m |-> m]
\* a map[string]interface{} held as an interface{} value
MapV(m) == [t |-> "map", v |-> "map", m |-> m]

\* the member-name sets of the struct types: one exported member, one
\* unexported member, two exported members that differ only in case, and two
\* that differ in their letters
MemberSets ==
    { { <<"A", "b">> }, { <<"A", "B">> }, { <<"c">> },
      { <<"A", "b">>, <<"A", "B">> }, { <<"A", "b">>, <<"C">> } }

\* the struct values nested at most d deep
RECURSIVE Structs(_)
Structs(d) ==
    IF d = 0
    THEN UNION { [S -> Vals] : S \in MemberSets }
    ELSE UNION { [S -> Vals \cup { StructV(m) : m \in Structs(d - 1) }] : S \in MemberSets }

\* a member name is exported when its first letter is upper case
Exported(name) == name[1] = Upper(name[1])

\* campo.Interface() panics on an unexported member, here or in a nested struct
RECURSIVE StructToMapPanics(_)
StructToMapPanics(s) ==
    \E n \in DOMAIN s :
        \/ ~Exported(n)
        \/ s[n].t = "struct" /\ StructToMapPanics(s[n].m)

\* the map of member name to value, a struct member flattened recursively
RECURSIVE StructToMap(_)
StructToMap(s) ==
    [n \in DOMAIN s |->
        IF s[n].t = "struct" THEN MapV(StructToMap(s[n].m)) ELSE s[n]]

\* the struct instances the populate loop of GenerateParquet may build from
\* mapData: the last visited key with a field's name and type sets the field
Populated(fs, mapData) ==
    { [name \in FieldNames(fs) |->
          IF Candidates(fs, mapData, name) = {}
          THEN Zero(FieldType(fs, name))
          ELSE mapData[last[name]]] :
        last \in { l \in [FieldNames(fs) -> DOMAIN mapData] :
                     \A name \in FieldNames(fs) :
                        Candidates(fs, mapData, name) # {}
                            => l[name] \in Candidates(fs, mapData, name) } }

\* the caller hands a structured value to StructToMap
FlFlatten ==
    /\ flPc = "fl_start"
    /\ IF StructToMapPanics(sv)
       THEN /\ flPc' = "fl_panic"
            /\ UNCHANGED flat1
       ELSE /\ flat1' = StructToMap(sv)
            /\ flPc' = "fl_infer"
    /\ UNCHANGED <<data, disk, pc, nFaults, gpVars, rpVars, sv, flFields, flRow, flat2>>

\* mapToStructWithTags on the flattened record
FlInfer ==
    /\ flPc = "fl_infer"
    /\ \E o \in RangeOrders(flat1) :
         /\ flFields' = StructFields(flat1, o)
         /\ flPc' = IF StructOfPanics(flFields') THEN "fl_panic" ELSE "fl_materialize"
    /\ UNCHANGED <<data, disk, pc, nFaults, gpVars, rpVars, sv, flat1, flRow, flat2>>

\* the record materialized into a struct instance by normalized-name lookup
FlMaterialize ==
    /\ flPc = "fl_materialize"
    /\ IF PopulatePanics(flFields, flat1)
       THEN /\ flPc' = "fl_panic"
            /\ UNCHANGED flRow
       ELSE /\ flRow' \in Populated(flFields, flat1)
            /\ flPc' = "fl_reflatten"
    /\ UNCHANGED <<data, disk, pc, nFaults, gpVars, rpVars, sv, flat1, flFields, flat2>>

\* StructToMap on the struct instance
FlReflatten ==
    /\ flPc = "fl_reflatten"
    /\ IF StructToMapPanics(flRow)
       THEN /\ flPc' = "fl_panic"
            /\ UNCHANGED flat2
       ELSE /\ flat2' = StructToMap(flRow)
            /\ flPc' = "fl_done"
    /\ UNCHANGED <<data, disk, pc, nFaults, gpVars, rpVars, sv, flat1, flFields, flRow>>

InitFlatten ==
    /\ data = <<>>
    /\ disk = NoFile
    /\ pc = "gp_start"
    /\ nFaults = 0
    /\ fields = <<>>
    /\ structSlice = <<>>
    /\ idx = 0
    /\ log = NoLog
    /\ fOpen = FALSE
    /\ wOpen = FALSE
    /\ events = <<>>
    /\ failed = {}
    /\ gpResult = "none"
    /\ targetOK = TRUE
    /\ rfOpens = 0
    /\ rfCloses = 0
    /\ pfNonNil = FALSE
    /\ pfCloses = 0
    /\ defers = <<>>
    /\ panicking = FALSE
    /\ readPos = 0
    /\ out = <<>>
    /\ rpExit = "none"
    /\ rpResult = "none"
    /\ sv \in Structs(MaxDepth)
    /\ flPc = "fl_start"
    /\ flat1 = <<>>
    /\ flFields = <<>>
    /\ flRow = <<>>
    /\ flat2 = <<>>

NextFlatten ==
    \/ FlFlatten
    \/ FlInfer
    \/ FlMaterialize
    \/ FlReflatten

SpecFlatten == InitFlatten /\ [][NextFlatten]_vars

(* ---------------------------------------------------------------------- *)
(* Properties                                                             *)
(* ---------------------------------------------------------------------- *)
ListedExits == { "eof", "shape_error", "decode_error", "decode_panic" }

\* C1: when a ReadParquet call that opened the file has ended on one of the
\* paths end-of-stream, target-shape error, decode error or panic while
\* decoding, pf.Close() and rf.Close() have each run exactly once.
C1_ReleasedExactlyOnce ==
    (pc = "rp_done" /\ rfOpens = 1 /\ rpExit \in ListedExits)
        => (pfCloses = 1 /\ rfCloses = 1)

\* C2: a ReadParquet call in which a row decode panicked does not return nil.
C2_FaultSurfaced ==
    (pc = "rp_done" /\ rpExit = "decode_panic") => rpResult # "nil"

\* os.Create succeeded in this GenerateParquet call
Created == Len(events) > 0 /\ "create" \notin failed

\* C3: once GenerateParquet has returned after creating the file, the writer
\* and the file handle are closed, the writer's close having followed the
\* writes.
C3_HandlesClosed ==
    (gpResult # "none" /\ Created)
        => /\ ~wOpen
           /\ ~fOpen
           /\ \E j \in 1..Len(events) :
                /\ events[j].op = "wclose"
                /\ \A h \in 1..Len(events) : events[h].op = "write" => h < j

\* C4: GenerateParquet never returns nil after file creation, a row write, the
\* writer's close or the file's close failed; it returns that failure.
C4_IOFailureReturned ==
    gpResult # "none"
        => /\ failed # {} => gpResult # "nil"
           /\ "create" \in failed => gpResult = "ErrCreate"
           /\ "write" \in failed => gpResult = "ErrWrite"
           /\ "wclose" \in failed => gpResult = "ErrWriterClose"
           /\ "fclose" \in failed => gpResult = "ErrFileClose"

\* the calls of a GenerateParquet run that wrote n rows in input order
OrderedCalls(n) ==
    <<Event("create", 0)>> \o [i \in 1..n |-> Event("write", i)]
        \o <<Event("wclose", 0), Event("fclose", 0)>>

\* C5: when GenerateParquet has returned nil, its calls were: create, then one
\* write per record in input order, then the writer's close, then the file's
\* close; and the file holds the rows in the order of the records.
C5_SuccessOrder ==
    gpResult = "nil"
        => /\ events = OrderedCalls(Len(data))
           /\ Len(disk.rows) = Len(data)
           /\ \A i \in 1..Len(data) : disk.rows[i] = RowOf(fields, structSlice[i])

C5_Witness ==
    /\ gpResult = "nil"
    /\ Len(data) = MaxRecords
    /\ structSlice[1] # structSlice[Len(data)]

\* C6: GenerateParquet on an empty batch returns the empty-data error, makes no
\* file-system or writer call, and leaves the file as it was (missing, or the
\* earlier file untouched).
C6_EmptyBatchRejected ==
    (Len(data) = 0 /\ pc # "gp_start")
        => /\ gpResult = "ErrEmptyData"
           /\ events = <<>>
           /\ ~fOpen
           /\ ~wOpen
           /\ disk \in { NoFile, OldFile }

C6_Witness == Len(data) = 0 /\ pc = "gp_done" /\ disk = OldFile

\* every record has the first record's keys, and under each key a value of the
\* first record's type for that key
SharedTypedFields ==
    /\ Len(data) > 0
    /\ \A i \in 1..Len(data) :
         /\ DOMAIN data[i] = DOMAIN data[1]
         /\ \A k \in DOMAIN data[i] :
              data[i][k] # NilV /\ TypeOf(data[i][k]) = TypeOf(data[1][k])

\* C7: for a batch with shared, type-consistent fields, with no failure of the
\* environment and a pointer to a slice as target, GenerateParquet returns nil
\* and ReadParquet then returns nil with one row per record, in order, every
\* field equal to the record's value.
C7_RoundTrip ==
    (SharedTypedFields /\ nFaults = 0 /\ targetOK)
        => /\ gpResult \in { "none", "nil" }
           /\ pc = "rp_done"
                => /\ rpResult = "nil"
                   /\ Len(out) = Len(data)
                   /\ \A i \in 1..Len(data) : \A k \in DOMAIN data[i] :
                        /\ Title(k) \in DOMAIN out[i]
                        /\ out[i][Title(k)] = data[i][k]

\* mapToStructWithTags returned a struct type
HasStructType == Len(data) > 0 /\ pc # "gp_start" /\ ~StructOfPanics(fields)

\* the records whose pass of the populate loop has completed
NumMaterialized ==
    IF pc = "gp_populate" \/ gpResult = "panic" THEN idx - 1 ELSE Len(structSlice)

\* key k of record i names a field whose type is not the type of its value
TypeMismatch(i, k) ==
    /\ IsValidField(fields, Title(k))
    /\ TypeOf(data[i][k]) # FieldType(fields, Title(k))

\* C8: materialization raises no fault, and in every materialized row a key
\* with a mismatched value leaves its field at the zero value while every
\* other field holds a matching value of the record.
C8_TypeMismatchTolerated ==
    HasStructType
        => /\ gpResult # "panic"
           /\ \A i \in 1..NumMaterialized : \A k \in DOMAIN data[i] :
                TypeMismatch(i, k)
                    => /\ structSlice[i][Title(k)] = Zero(FieldType(fields, Title(k)))
                       /\ \A k2 \in DOMAIN data[i] :
                            (IsValidField(fields, Title(k2)) /\ ~TypeMismatch(i, k2)
                                /\ Title(k2) # Title(k))
                                => structSlice[i][Title(k2)] \in
                                     { data[i][c] : c \in Candidates(fields, data[i], Title(k2)) }

\* C9: once the batch is materialized, each key has been reported once for
\* every record in which it names no field or holds a value of another type
\* than its field, and no such value is stored in the row.
C9_MismatchesReported ==
    (HasStructType /\ pc # "gp_populate" /\ gpResult # "panic")
        => \A k \in Keys :
             /\ log[k] = Cardinality({ i \in 1..Len(data) :
                            /\ k \in DOMAIN data[i]
                            /\ (~IsValidField(fields, Title(k)) \/ TypeMismatch(i, k)) })
             /\ \A i \in 1..Len(data) :
                  (k \in DOMAIN data[i] /\ TypeMismatch(i, k))
                      => structSlice[i][Title(k)] # data[i][k]

\* C10: distinct keys of the sample record have distinct normalized names, the
\* fields built from it are as many as its keys, and the field named by a
\* key's normalized name is the field created from that key.
C10_NormalizationInjective ==
    (Len(data) > 0 /\ pc # "gp_start")
        => /\ \A k1, k2 \in DOMAIN data[1] : k1 # k2 => Title(k1) # Title(k2)
           /\ Cardinality(FieldNames(fields)) = Cardinality(DOMAIN data[1])
           /\ \A k \in DOMAIN data[1] : \A i \in 1..Len(fields) :
                fields[i].Name = Title(k) => fields[i].Tag = k

\* C11: when the pipeline StructToMap, mapToStructWithTags, populate by
\* normalized name, StructToMap has run on a structured value, the second
\* flattened record is the first: the same keys, the same value under each.
C11_FlattenIdempotent ==
    flPc = "fl_done"
        => /\ DOMAIN flat2 = DOMAIN flat1
           /\ \A k \in DOMAIN flat1 : flat2[k] = flat1[k]
====
